---- MODULE Spec2Model ----
(***************************************************************************)
(* Model of sql_climate_demo.py: an in-memory SQLite database is created,  *)
(* loaded with twelve literal climate readings, queried three times        *)
(* (aggregation, window ranking, CTE filter), read back whole, correlated, *)
(* and every result is printed to standard output.                         *)
(*                                                                         *)
(* Conventions of the model:                                               *)
(*  - temperature and humidity are held in tenths (10.2 is 102), so every  *)
(*    literal of the source is an exact integer;                           *)
(*  - a reading_date "2025-01-02" is held as the integer 20250102: SQLite  *)
(*    compares TEXT bytewise, which for ISO dates is the numeric order;    *)
(*  - a mean is held as the exact rational <<sum, count>>;                 *)
(*  - the result of a query with an ORDER BY is ANY row sequence that the  *)
(*    ORDER BY admits: rows that tie on the sort key may come in any order;*)
(*  - a statement that raises ends main at once (there is no try/finally). *)
(***************************************************************************)
EXTENDS Integers, Sequences, FiniteSets, TLC

VARIABLES pc, conn, schema, table, cursor, inTxn,
          df_avg, df_window, df_cte, df_all, corr,
          stdout, run, prevOut, prevOk

vars == <<pc, conn, schema, table, cursor, inTxn,
          df_avg, df_window, df_cte, df_all, corr,
          stdout, run, prevOut, prevOk>>

(* ---------------------------- bounds ---------------------------------- *)
MaxRuns == 2
MaxRows == 3
MaxTemp == 1

(* ---------------------------- the data -------------------------------- *)
Rec(c, d, t, h) == [city |-> c, reading_date |-> d, temperature |-> t, humidity |-> h]

records ==
  << Rec("New York",  20250101,  -52, 350),
     Rec("New York",  20250102,  -21, 400),
     Rec("New York",  20250103,    5, 420),
     Rec("Chicago",   20250101,  -70, 500),
     Rec("Chicago",   20250102,  -55, 550),
     Rec("Chicago",   20250103,  -32, 480),
     Rec("Houston",   20250101,  102, 700),
     Rec("Houston",   20250102,  121, 680),
     Rec("Houston",   20250103,  150, 650),
     Rec("San Diego", 20250101,  152, 550),
     Rec("San Diego", 20250102,  165, 520),
     Rec("San Diego", 20250103,  180, 500) >>

(* a stored row: the inserted record plus its AUTOINCREMENT id *)
Row(i, r) == [id |-> i, city |-> r.city, reading_date |-> r.reading_date,
              temperature |-> r.temperature, humidity |-> r.humidity]

Range(s) == {s[i] : i \in 1..Len(s)}

(* ---------------------------- helpers --------------------------------- *)
RECURSIVE SetSum(_, _)
SetSum(S, f) ==
  IF S = {} THEN 0
  ELSE LET x == CHOOSE y \in S : TRUE IN f[x] + SetSum(S \ {x}, f)

RatLess(a, b) == a[1] * b[2] < b[1] * a[2]
RatEq(a, b)   == a[1] * b[2] = b[1] * a[2]

(* every sequence that lists S once and respects the strict order lt      *)
(* (a set of pairs <<a, b>>, "a sorts before b"): what an ORDER BY admits *)
RECURSIVE Orders(_, _)
Orders(S, lt) ==
  IF S = {} THEN {<< >>}
  ELSE UNION { { <<x>> \o s : s \in Orders(S \ {x}, lt) } :
               x \in { m \in S : \A y \in S : <<y, m>> \notin lt } }

(* ---------------------- the queries, as functions --------------------- *)
Cities(T) == {r.city : r \in T}

(* mutant of Avg: SUM where AVG was meant *)
Avg_sum(G, col) == << SetSum(G, [r \in G |-> r[col]]), 1 >>

(* AVG(col) over a GROUP BY group: sum / count, kept exact *)
Avg(G, col) == << SetSum(G, [r \in G |-> r[col]]), Cardinality(G) >>

(* SELECT city, AVG(temperature), AVG(humidity) ... GROUP BY city *)
AvgRows(T) ==
  { [city |-> c,
     avg_temp     |-> Avg({r \in T : r.city = c}, "temperature"),
     avg_humidity |-> Avg({r \in T : r.city = c}, "humidity")] : c \in Cities(T) }

(* mutant of AvgBefore: ORDER BY avg_temp, without DESC *)
AvgBefore_asc(a, b) == RatLess(a.avg_temp, b.avg_temp)

(* ORDER BY avg_temp DESC *)
AvgBefore(a, b) == RatLess(b.avg_temp, a.avg_temp)

AvgResults(T) ==
  Orders(AvgRows(T), {p \in AvgRows(T) \X AvgRows(T) : AvgBefore(p[1], p[2])})

(* PARTITION BY reading_date *)
Partition(r, T) == {x \in T : x.reading_date = r.reading_date}

(* mutant of TempBefore: the window ordered by temperature ascending *)
TempBefore_asc(a, b) == a.temperature < b.temperature

(* ORDER BY temperature DESC inside the window *)
TempBefore(a, b) == a.temperature > b.temperature

(* mutant of RankOf: DENSE_RANK() where RANK() was meant *)
RankOf_dense(r, T) ==
  1 + Cardinality({x.temperature : x \in {y \in T : /\ y.reading_date = r.reading_date
                                                    /\ y.temperature > r.temperature}})

(* RANK(): the partition is sorted by the window's ORDER BY and a row gets *)
(* the position of the first row of its peer group in that sorted order   *)
RankOf(r, T) ==
  LET P      == Partition(r, T)
      sorted == CHOOSE s \in Orders(P, {p \in P \X P : TempBefore(p[1], p[2])}) : TRUE
      peers  == {i \in 1..Len(sorted) : sorted[i].temperature = r.temperature}
  IN  CHOOSE i \in peers : \A j \in peers : i <= j

(* the rows of the ranked select, still carrying the id of their source row *)
RankedRows(T) ==
  { [id |-> r.id, city |-> r.city, reading_date |-> r.reading_date,
     temperature |-> r.temperature, temp_rank |-> RankOf(r, T)] : r \in T }

(* SELECT city, reading_date, temperature, temp_rank *)
Project(s) ==
  [i \in 1..Len(s) |-> [city |-> s[i].city, reading_date |-> s[i].reading_date,
                        temperature |-> s[i].temperature, temp_rank |-> s[i].temp_rank]]

(* ORDER BY reading_date, temp_rank *)
WindowBefore(a, b) ==
  \/ a.reading_date < b.reading_date
  \/ a.reading_date = b.reading_date /\ a.temp_rank < b.temp_rank

WindowResults(T) ==
  { Project(s) : s \in Orders(RankedRows(T),
        {p \in RankedRows(T) \X RankedRows(T) : WindowBefore(p[1], p[2])}) }

(* mutant of CteWhere: the two hottest per date *)
CteWhere_top2(r) == r.temp_rank <= 2

(* WHERE temp_rank = 1 *)
CteWhere(r) == r.temp_rank = 1

(* mutant of CteBefore: the ORDER BY left out *)
CteBefore_unordered(a, b) == FALSE

(* ORDER BY reading_date *)
CteBefore(a, b) == a.reading_date < b.reading_date

CteRows(T) == {r \in RankedRows(T) : CteWhere(r)}

CteResults(T) ==
  { Project(s) : s \in Orders(CteRows(T),
        {p \in CteRows(T) \X CteRows(T) : CteBefore(p[1], p[2])}) }

(* DataFrame.head(): the first five rows *)
HeadRows(df) == SubSeq(df, 1, IF Len(df) < 5 THEN Len(df) ELSE 5)

(* mutant of Cov: the factor n left out *)
Cov_noN(df, x, y) ==
  LET I == 1..Len(df) IN
  SetSum(I, [i \in I |-> df[i][x] * df[i][y]])
    - SetSum(I, [i \in I |-> df[i][x]]) * SetSum(I, [i \in I |-> df[i][y]])

(* n*sum(x*y) - sum(x)*sum(y): n*(n-1) times the sample covariance *)
Cov(df, x, y) ==
  LET I == 1..Len(df) IN
  Len(df) * SetSum(I, [i \in I |-> df[i][x] * df[i][y]])
    - SetSum(I, [i \in I |-> df[i][x]]) * SetSum(I, [i \in I |-> df[i][y]])

(* one Pearson coefficient, cov / sqrt(varx * vary), kept as its three parts *)
Entry(df, x, y) ==
  [cov |-> Cov(df, x, y), varx |-> Cov(df, x, x), vary |-> Cov(df, y, y)]

(* df[["temperature", "humidity"]].corr() *)
CorrMatrix(df) ==
  << [index |-> "temperature",
      temperature |-> Entry(df, "temperature", "temperature"),
      humidity    |-> Entry(df, "temperature", "humidity")],
     [index |-> "humidity",
      temperature |-> Entry(df, "humidity", "temperature"),
      humidity    |-> Entry(df, "humidity", "humidity")] >>

(* --------------------------- standard output -------------------------- *)
Header(t) == [kind |-> "header", text |-> t, frame |-> << >>]
Frame(df) == [kind |-> "frame",  text |-> "", frame |-> df]
Blank     == [kind |-> "blank",  text |-> "", frame |-> << >>]

H_AVG    == "=== Average Temperature & Humidity by City ==="
H_WINDOW == "=== Window Function: Temperature Rank per Date ==="
H_CTE    == "=== CTE: Hottest City per Date ==="
H_ALL    == "=== Full climate_data Table in Pandas ==="
H_CORR   == "=== Correlation Matrix between Temperature & Humidity ==="

(* print(t) *)
PrintHeader(out, t) == Append(out, Header(t))
(* mutant of PrintFrameNl: the "\n" argument left out *)
PrintFrameNl_noblank(out, df) == Append(out, Frame(df))

(* print(df, "\n"): the frame, then " \n" and print's own newline *)
PrintFrameNl(out, df) == out \o << Frame(df), Blank >>
(* print(df) *)
PrintFrame(out, df) == Append(out, Frame(df))

(* ------------------------------ Init ---------------------------------- *)
Init ==
  /\ pc = "start"
  /\ conn = "none"
  /\ schema = FALSE
  /\ table = << >>
  /\ cursor = 1
  /\ inTxn = FALSE
  /\ df_avg = << >>
  /\ df_window = << >>
  /\ df_cte = << >>
  /\ df_all = << >>
  /\ corr = << >>
  /\ stdout = << >>
  /\ run = 1
  /\ prevOut = << >>
  /\ prevOk = FALSE

(* ------------------------------ main ---------------------------------- *)
(* conn = sqlite3.connect(":memory:") *)
Connect ==
  /\ pc = "start"
  /\ conn' = "open"
  /\ pc' = "create_table"
  /\ UNCHANGED <<schema, table, cursor, inTxn, df_avg, df_window, df_cte,
                 df_all, corr, stdout, run, prevOut, prevOk>>

(* connection.execute(CREATE TABLE IF NOT EXISTS climate_data ...) *)
CreateTable ==
  /\ pc = "create_table"
  /\ schema' = TRUE
  /\ cursor' = 1
  /\ pc' = "insert"
  /\ UNCHANGED <<conn, table, inTxn, df_avg, df_window, df_cte,
                 df_all, corr, stdout, run, prevOut, prevOk>>

(* one step of connection.executemany(insert_query, records): the next    *)
(* record is inserted under a fresh AUTOINCREMENT id, inside the implicit *)
(* transaction that the first INSERT opens                                *)
InsertRecord ==
  /\ pc = "insert"
  /\ schema
  /\ cursor <= Len(records)
  /\ table' = Append(table, Row(Len(table) + 1, records[cursor]))
  /\ inTxn' = TRUE
  /\ cursor' = cursor + 1
  /\ pc' = IF cursor = Len(records) THEN "commit" ELSE "insert"
  /\ UNCHANGED <<conn, schema, df_avg, df_window, df_cte,
                 df_all, corr, stdout, run, prevOut, prevOk>>

(* mutant of Commit: rollback() where commit() was meant *)
Commit_rollback ==
  /\ pc = "commit"
  /\ inTxn' = FALSE
  /\ table' = << >>
  /\ pc' = "query_avg"
  /\ UNCHANGED <<conn, schema, cursor, df_avg, df_window, df_cte,
                 df_all, corr, stdout, run, prevOut, prevOk>>

(* connection.commit() *)
Commit ==
  /\ pc = "commit"
  /\ inTxn' = FALSE
  /\ pc' = "query_avg"
  /\ UNCHANGED <<conn, schema, table, cursor, df_avg, df_window, df_cte,
                 df_all, corr, stdout, run, prevOut, prevOk>>

(* df_avg = pd.read_sql_query(query_avg, connection) *)
QueryAvg ==
  /\ pc = "query_avg"
  /\ \E r \in AvgResults(Range(table)) : df_avg' = r
  /\ pc' = "print_avg_header"
  /\ UNCHANGED <<conn, schema, table, cursor, inTxn, df_window, df_cte,
                 df_all, corr, stdout, run, prevOut, prevOk>>

PrintAvgHeader ==
  /\ pc = "print_avg_header"
  /\ stdout' = PrintHeader(stdout, H_AVG)
  /\ pc' = "print_avg"
  /\ UNCHANGED <<conn, schema, table, cursor, inTxn, df_avg, df_window, df_cte,
                 df_all, corr, run, prevOut, prevOk>>

PrintAvg ==
  /\ pc = "print_avg"
  /\ stdout' = PrintFrameNl(stdout, df_avg)
  /\ pc' = "query_window"
  /\ UNCHANGED <<conn, schema, table, cursor, inTxn, df_avg, df_window, df_cte,
                 df_all, corr, run, prevOut, prevOk>>

(* df_window = pd.read_sql_query(query_window, connection) *)
QueryWindow ==
  /\ pc = "query_window"
  /\ \E r \in WindowResults(Range(table)) : df_window' = r
  /\ pc' = "print_window_header"
  /\ UNCHANGED <<conn, schema, table, cursor, inTxn, df_avg, df_cte,
                 df_all, corr, stdout, run, prevOut, prevOk>>

PrintWindowHeader ==
  /\ pc = "print_window_header"
  /\ stdout' = PrintHeader(stdout, H_WINDOW)
  /\ pc' = "print_window"
  /\ UNCHANGED <<conn, schema, table, cursor, inTxn, df_avg, df_window, df_cte,
                 df_all, corr, run, prevOut, prevOk>>

PrintWindow ==
  /\ pc = "print_window"
  /\ stdout' = PrintFrameNl(stdout, df_window)
  /\ pc' = "query_cte"
  /\ UNCHANGED <<conn, schema, table, cursor, inTxn, df_avg, df_window, df_cte,
                 df_all, corr, run, prevOut, prevOk>>

(* df_cte = pd.read_sql_query(query_cte, connection) *)
QueryCte ==
  /\ pc = "query_cte"
  /\ \E r \in CteResults(Range(table)) : df_cte' = r
  /\ pc' = "print_cte_header"
  /\ UNCHANGED <<conn, schema, table, cursor, inTxn, df_avg, df_window,
                 df_all, corr, stdout, run, prevOut, prevOk>>

PrintCteHeader ==
  /\ pc = "print_cte_header"
  /\ stdout' = PrintHeader(stdout, H_CTE)
  /\ pc' = "print_cte"
  /\ UNCHANGED <<conn, schema, table, cursor, inTxn, df_avg, df_window, df_cte,
                 df_all, corr, run, prevOut, prevOk>>

PrintCte ==
  /\ pc = "print_cte"
  /\ stdout' = PrintFrameNl(stdout, df_cte)
  /\ pc' = "query_all"
  /\ UNCHANGED <<conn, schema, table, cursor, inTxn, df_avg, df_window, df_cte,
                 df_all, corr, run, prevOut, prevOk>>

(* df_all = pd.read_sql_query("SELECT * FROM climate_data;", conn):       *)
(* SQLite scans the table's b-tree, which is keyed by the rowid (the id)  *)
QueryAll ==
  /\ pc = "query_all"
  /\ df_all' = table
  /\ pc' = "print_all_header"
  /\ UNCHANGED <<conn, schema, table, cursor, inTxn, df_avg, df_window, df_cte,
                 corr, stdout, run, prevOut, prevOk>>

PrintAllHeader ==
  /\ pc = "print_all_header"
  /\ stdout' = PrintHeader(stdout, H_ALL)
  /\ pc' = "print_all"
  /\ UNCHANGED <<conn, schema, table, cursor, inTxn, df_avg, df_window, df_cte,
                 df_all, corr, run, prevOut, prevOk>>

(* print(df_all.head(), "\n") *)
PrintAllHead ==
  /\ pc = "print_all"
  /\ stdout' = PrintFrameNl(stdout, HeadRows(df_all))
  /\ pc' = "corr"
  /\ UNCHANGED <<conn, schema, table, cursor, inTxn, df_avg, df_window, df_cte,
                 df_all, corr, run, prevOut, prevOk>>

(* corr = df_all[["temperature", "humidity"]].corr() *)
Corr ==
  /\ pc = "corr"
  /\ corr' = CorrMatrix(df_all)
  /\ pc' = "print_corr_header"
  /\ UNCHANGED <<conn, schema, table, cursor, inTxn, df_avg, df_window, df_cte,
                 df_all, stdout, run, prevOut, prevOk>>

PrintCorrHeader ==
  /\ pc = "print_corr_header"
  /\ stdout' = PrintHeader(stdout, H_CORR)
  /\ pc' = "print_corr"
  /\ UNCHANGED <<conn, schema, table, cursor, inTxn, df_avg, df_window, df_cte,
                 df_all, corr, run, prevOut, prevOk>>

(* print(corr) *)
PrintCorr ==
  /\ pc = "print_corr"
  /\ stdout' = PrintFrame(stdout, corr)
  /\ pc' = "close"
  /\ UNCHANGED <<conn, schema, table, cursor, inTxn, df_avg, df_window, df_cte,
                 df_all, corr, run, prevOut, prevOk>>

(* conn.close(): the in-memory database goes with the connection *)
Close ==
  /\ pc = "close"
  /\ conn' = "closed"
  /\ schema' = FALSE
  /\ table' = << >>
  /\ pc' = "done"
  /\ UNCHANGED <<cursor, inTxn, df_avg, df_window, df_cte,
                 df_all, corr, stdout, run, prevOut, prevOk>>

(* the statements of main between the connect and the close *)
Between ==
  {"create_table", "insert", "commit",
   "query_avg", "print_avg_header", "print_avg",
   "query_window", "print_window_header", "print_window",
   "query_cte", "print_cte_header", "print_cte",
   "query_all", "print_all_header", "print_all",
   "corr", "print_corr_header", "print_corr"}

(* a statement raises: main has no try/finally and no with-block, so the  *)
(* exception leaves main at once and none of its later statements runs    *)
Raise ==
  /\ pc \in Between
  /\ pc' = "aborted"
  /\ UNCHANGED <<conn, schema, table, cursor, inTxn, df_avg, df_window, df_cte,
                 df_all, corr, stdout, run, prevOut, prevOk>>

(* the script is started again: a new process, a new in-memory database   *)
Rerun ==
  /\ pc \in {"done", "aborted"}
  /\ run < MaxRuns
  /\ run' = run + 1
  /\ prevOut' = stdout
  /\ prevOk' = (pc = "done")
  /\ pc' = "start"
  /\ conn' = "none"
  /\ schema' = FALSE
  /\ table' = << >>
  /\ cursor' = 1
  /\ inTxn' = FALSE
  /\ df_avg' = << >>
  /\ df_window' = << >>
  /\ df_cte' = << >>
  /\ df_all' = << >>
  /\ corr' = << >>
  /\ stdout' = << >>

Next ==
  \/ Connect \/ CreateTable \/ InsertRecord \/ Commit
  \/ QueryAvg \/ PrintAvgHeader \/ PrintAvg
  \/ QueryWindow \/ PrintWindowHeader \/ PrintWindow
  \/ QueryCte \/ PrintCteHeader \/ PrintCte
  \/ QueryAll \/ PrintAllHeader \/ PrintAllHead
  \/ Corr \/ PrintCorrHeader \/ PrintCorr
  \/ Close \/ Raise \/ Rerun

Spec == Init /\ [][Next]_vars

(* ------------- run_advanced_analytics on an arbitrary table ----------- *)
(* the table the loader leaves behind *)
LoadedTable == [i \in 1..Len(records) |-> Row(i, records[i])]

SmallRecs ==
  { Rec(c, d, t, 500) : c \in {"Houston", "Chicago"},
                        d \in {20250101, 20250102}, t \in 0..MaxTemp }

SmallTables ==
  UNION { { [i \in 1..n |-> Row(i, f[i])] : f \in [1..n -> SmallRecs] } : n \in 0..MaxRows }

InitRank ==
  /\ pc = "query_window"
  /\ conn = "open"
  /\ schema = TRUE
  /\ table \in SmallTables \cup {LoadedTable}
  /\ cursor = 1
  /\ inTxn = FALSE
  /\ df_avg = << >>
  /\ df_window = << >>
  /\ df_cte = << >>
  /\ df_all = << >>
  /\ corr = << >>
  /\ stdout = << >>
  /\ run = 1
  /\ prevOut = << >>
  /\ prevOk = FALSE

NextRank ==
  \/ QueryWindow \/ PrintWindowHeader \/ PrintWindow
  \/ QueryCte \/ PrintCteHeader \/ PrintCte

SpecRank == InitRank /\ [][NextRank]_vars

(* ======================= properties of the program ==================== *)
AllCities == {"New York", "Chicago", "Houston", "San Diego"}
AllDates  == {20250101, 20250102, 20250103}

(* create_and_populate_db has returned and the connection is still open *)
Loaded == conn = "open" /\ schema /\ cursor > Len(records) /\ ~inTxn

AfterAvg ==
  {"print_avg_header", "print_avg", "query_window", "print_window_header",
   "print_window", "query_cte", "print_cte_header", "print_cte", "query_all",
   "print_all_header", "print_all", "corr", "print_corr_header", "print_corr",
   "close", "done"}
AfterWindow == AfterAvg \ {"print_avg_header", "print_avg", "query_window"}
AfterCte    == AfterWindow \ {"print_window_header", "print_window", "query_cte"}
AfterCorr   == {"print_corr_header", "print_corr", "close", "done"}

CityOrder(df) == [i \in 1..Len(df) |-> df[i].city]

StrictlyDescendingAvg(df) ==
  \A i \in 1..(Len(df) - 1) : RatLess(df[i + 1].avg_temp, df[i].avg_temp)

(* C1 as stated: the aggregation report is strictly ordered by descending *)
(* mean temperature, in the order Houston, San Diego, New York, Chicago.  *)
C1_AsStated ==
  pc \in AfterAvg =>
    /\ StrictlyDescendingAvg(df_avg)
    /\ CityOrder(df_avg) = <<"Houston", "San Diego", "New York", "Chicago">>

(* C1 (amended): the aggregation report is strictly ordered by descending *)
(* mean temperature, in the order San Diego, Houston, New York, Chicago.  *)
C1_AvgOrder ==
  pc \in AfterAvg =>
    /\ StrictlyDescendingAvg(df_avg)
    /\ CityOrder(df_avg) = <<"San Diego", "Houston", "New York", "Chicago">>

C1_Witness == pc = "print_avg_header" /\ Len(df_avg) = 4

TopRows(df, d) == {i \in 1..Len(df) : df[i].reading_date = d /\ df[i].temp_rank = 1}

TopCity(df, d, c) ==
  /\ Cardinality(TopRows(df, d)) = 1
  /\ \A i \in TopRows(df, d) : df[i].city = c

(* C2 as stated: exactly one record per date has rank 1, and it is        *)
(* Houston on 2025-01-01, Houston on 2025-01-02, San Diego on 2025-01-03. *)
C2_AsStated ==
  pc \in AfterWindow =>
    /\ TopCity(df_window, 20250101, "Houston")
    /\ TopCity(df_window, 20250102, "Houston")
    /\ TopCity(df_window, 20250103, "San Diego")

(* C2 (amended): exactly one record per date has rank 1, and on each of   *)
(* the three dates it is San Diego.                                       *)
C2_TopPerDate ==
  pc \in AfterWindow =>
    /\ Len(df_window) = 12
    /\ \A d \in AllDates : TopCity(df_window, d, "San Diego")

C2_Witness == pc = "print_window_header" /\ Len(df_window) = 12

(* exact product of two naturals below 10^8, as four base-10^4 digits *)
BigMul(a, b) ==
  LET a1 == a \div 10000  a0 == a % 10000
      b1 == b \div 10000  b0 == b % 10000
      c0 == a0 * b0
      c1 == a1 * b0 + a0 * b1 + (c0 \div 10000)
      c2 == a1 * b1 + (c1 \div 10000)
  IN  << c2 \div 10000, c2 % 10000, c1 % 10000, c0 % 10000 >>

BigLeq(x, y) ==
  \/ x = y
  \/ \E k \in 1..4 : x[k] < y[k] /\ \A j \in 1..(k - 1) : x[j] = y[j]

Abs(n) == IF n < 0 THEN -n ELSE n

(* the coefficient cov / sqrt(varx * vary) is 1.0 *)
IsOne(e) ==
  /\ e.cov > 0 /\ e.varx > 0 /\ e.vary > 0
  /\ BigMul(e.cov, e.cov) = BigMul(e.varx, e.vary)

(* the coefficient has magnitude at most 1.0 *)
MagnitudeAtMostOne(e) ==
  /\ e.varx > 0 /\ e.vary > 0
  /\ BigLeq(BigMul(Abs(e.cov), Abs(e.cov)), BigMul(e.varx, e.vary))

(* two coefficients are the same number *)
SameCoefficient(e, f) ==
  /\ e.cov = f.cov
  /\ BigMul(Abs(e.varx), Abs(e.vary)) = BigMul(Abs(f.varx), Abs(f.vary))

MatrixShape(m) ==
  /\ Len(m) = 2
  /\ IsOne(m[1].temperature)
  /\ IsOne(m[2].humidity)
  /\ SameCoefficient(m[1].humidity, m[2].temperature)
  /\ MagnitudeAtMostOne(m[1].humidity)

(* C3 as stated: the matrix is symmetric with 1.0 on the diagonal and an  *)
(* off-diagonal magnitude of at most 1.0, and the off-diagonal entry is   *)
(* negative: n*sum(t*h) - sum(t)*sum(h) < 0.                              *)
C3_AsStated ==
  pc \in AfterCorr => MatrixShape(corr) /\ corr[1].humidity.cov < 0

(* C3 (amended): the matrix is symmetric with 1.0 on the diagonal and an  *)
(* off-diagonal magnitude of at most 1.0, and the off-diagonal entry is   *)
(* positive: n*sum(t*h) - sum(t)*sum(h) > 0.                              *)
C3_Correlation ==
  pc \in AfterCorr => MatrixShape(corr) /\ corr[1].humidity.cov > 0

C3_Witness == pc = "print_corr_header" /\ Len(corr) = 2 /\ Len(df_all) = 12

(* C4: on every path on which main ends, with or without an error, the   *)
(* connection opened at its start has been closed.                        *)
C4_Released == pc \in {"done", "aborted"} => conn = "closed"

Headers(out) == SelectSeq(out, LAMBDA e : e.kind = "header")

HeaderTexts(out) == [i \in 1..Len(Headers(out)) |-> Headers(out)[i].text]

(* every header line is followed by a frame, and that frame by a blank line *)
EverySectionClosed(out) ==
  \A i \in 1..Len(out) :
    out[i].kind = "header" =>
      /\ i + 2 <= Len(out)
      /\ out[i + 1].kind = "frame"
      /\ out[i + 2].kind = "blank"

(* C5 as stated: a successful run prints exactly four sections, in the    *)
(* order average-by-city, rank-per-date, hottest-city-per-date,           *)
(* correlation matrix, each under its header and followed by a blank line.*)
C5_AsStated ==
  pc = "done" =>
    /\ HeaderTexts(stdout) = <<H_AVG, H_WINDOW, H_CTE, H_CORR>>
    /\ EverySectionClosed(stdout)

(* C5 (amended): a successful run prints exactly five sections, in the    *)
(* order average-by-city, rank-per-date, hottest-city-per-date, first     *)
(* five rows of the full table, correlation matrix; each is preceded by   *)
(* its header line; the first four are followed by a blank line and the   *)
(* correlation matrix is the last thing printed, with nothing after it.   *)
C5_Sections ==
  pc = "done" =>
    stdout = << Header(H_AVG),    Frame(df_avg),    Blank,
                Header(H_WINDOW), Frame(df_window), Blank,
                Header(H_CTE),    Frame(df_cte),    Blank,
                Header(H_ALL),    Frame(SubSeq(df_all, 1, 5)), Blank,
                Header(H_CORR),   Frame(corr) >>

C5_Witness == pc = "done" /\ Len(stdout) = 14 /\ conn = "closed"

RowSet(df) == {df[i] : i \in 1..Len(df)}

(* C6: the hottest-city-per-date result is exactly the ranking report's   *)
(* rows with temp_rank = 1, in the report's order: a strict subset of the *)
(* report, one row per distinct reading_date, every row of rank 1, rows   *)
(* in ascending reading_date.                                             *)
C6_CteIsTopOfWindow ==
  pc \in AfterCte =>
    /\ df_cte = SelectSeq(df_window, LAMBDA r : r.temp_rank = 1)
    /\ RowSet(df_cte) \subseteq RowSet(df_window)
    /\ RowSet(df_cte) # RowSet(df_window)
    /\ \A d \in {r.reading_date : r \in RowSet(df_window)} :
         Cardinality({i \in 1..Len(df_cte) : df_cte[i].reading_date = d}) = 1
    /\ \A i \in 1..Len(df_cte) : df_cte[i].temp_rank = 1
    /\ \A i \in 1..(Len(df_cte) - 1) :
         df_cte[i].reading_date < df_cte[i + 1].reading_date

C6_Witness == pc = "print_cte_header" /\ Len(df_cte) = 3 /\ Len(df_window) = 12

(* the records of the table on date d that are strictly hotter than t *)
Hotter(d, t) ==
  {i \in 1..Len(table) : table[i].reading_date = d /\ table[i].temperature > t}

WindowDone == pc \in {"print_window_header", "print_window", "query_cte",
                      "print_cte_header", "print_cte", "query_all"}

(* C7: every row of the ranking report has temp_rank = 1 + the number of  *)
(* records of the same reading_date with a strictly greater temperature;  *)
(* the report has one row per record, ordered by reading_date and then by *)
(* temp_rank ascending; for the twelve-record dataset each of the ranks   *)
(* 1, 2, 3, 4 appears exactly once per date.                              *)
C7_RankWithGaps ==
  WindowDone =>
    /\ Len(df_window) = Len(table)
    /\ \A i \in 1..Len(df_window) :
         df_window[i].temp_rank =
           1 + Cardinality(Hotter(df_window[i].reading_date, df_window[i].temperature))
    /\ \A i \in 1..(Len(df_window) - 1) :
         \/ df_window[i].reading_date < df_window[i + 1].reading_date
         \/ /\ df_window[i].reading_date = df_window[i + 1].reading_date
            /\ df_window[i].temp_rank <= df_window[i + 1].temp_rank
    /\ table = LoadedTable =>
         \A d \in AllDates : \A k \in 1..4 :
           Cardinality({i \in 1..Len(df_window) :
                          df_window[i].reading_date = d /\ df_window[i].temp_rank = k}) = 1

(* two records tie for hottest on a date and the next one gets rank 3 *)
C7_Witness ==
  /\ pc = "print_window_header"
  /\ Len(df_window) = 3
  /\ df_window[1].temp_rank = 1
  /\ df_window[2].temp_rank = 1
  /\ df_window[3].temp_rank = 3
  /\ df_window[1].reading_date = df_window[3].reading_date

(* the literal records of one city *)
RecordsOf(c) == {i \in 1..Len(records) : records[i].city = c}

(* C8: the aggregation report has exactly 4 rows, one per distinct city,  *)
(* each giving the mean of that city's three temperatures and of its      *)
(* three humidities; Houston's are (10.2+12.1+15.0)/3 and                 *)
(* (70.0+68.0+65.0)/3.                                                    *)
C8_Means ==
  pc \in AfterAvg =>
    /\ Len(df_avg) = 4
    /\ {df_avg[i].city : i \in 1..Len(df_avg)} = AllCities
    /\ \A i \in 1..Len(df_avg) :
         LET I == RecordsOf(df_avg[i].city) IN
         /\ Cardinality(I) = 3
         /\ RatEq(df_avg[i].avg_temp,
                  << SetSum(I, [k \in I |-> records[k].temperature]), 3 >>)
         /\ RatEq(df_avg[i].avg_humidity,
                  << SetSum(I, [k \in I |-> records[k].humidity]), 3 >>)
    /\ \A i \in 1..Len(df_avg) :
         df_avg[i].city = "Houston" =>
           /\ RatEq(df_avg[i].avg_temp, << 102 + 121 + 150, 3 >>)
           /\ RatEq(df_avg[i].avg_humidity, << 700 + 680 + 650, 3 >>)

C8_Witness ==
  /\ pc = "print_avg_header"
  /\ \E i \in 1..Len(df_avg) : df_avg[i].city = "Houston"

(* C9: from the return of create_and_populate_db until the connection is  *)
(* closed the table holds exactly twelve records, one for each pair of    *)
(* the four cities and the three dates, with the loaded values; no later  *)
(* step inserts, updates or deletes a record.                             *)
C9_TwelveRecords ==
  Loaded =>
    /\ Len(table) = 12
    /\ \A c \in AllCities : \A d \in AllDates :
         Cardinality({i \in 1..Len(table) :
                        table[i].city = c /\ table[i].reading_date = d}) = 1
    /\ \A i \in 1..Len(table) :
         /\ table[i].id = i
         /\ Rec(table[i].city, table[i].reading_date,
                table[i].temperature, table[i].humidity) = records[i]

C9_Witness == Loaded /\ pc = "close" /\ Len(table) = 12

(* C10: a run that completes after a completed run has printed exactly    *)
(* what that run printed, and on the loaded table each of the three       *)
(* ORDER BY clauses admits a single row order.                            *)
C10_Deterministic ==
  /\ (pc = "done" /\ prevOk) => stdout = prevOut
  /\ Loaded =>
       /\ Cardinality(AvgResults(Range(table))) = 1
       /\ Cardinality(WindowResults(Range(table))) = 1
       /\ Cardinality(CteResults(Range(table))) = 1

C10_Witness == pc = "done" /\ prevOk /\ run = 2 /\ Len(prevOut) = 14

====
